---- MODULE Spec2Model ----
(***************************************************************************)
(* FeynmanSession (crates/core/src/session_state.rs): the turn-taking      *)
(* state machine of the Feynman tutoring service, with the Reviewer        *)
(* (analyzer) as a nondeterministic oracle and the command channel as a    *)
(* bounded queue.  A call on the session holds `&mut FeynmanSession` from  *)
(* its start to its return, so at most one call is in progress (pc) and    *)
(* its await points are the only places where the rest of the system runs. *)
(* The service around it (services/feynman/src/main.rs) is the server loop  *)
(* that receives broadcast server events and calls process_segment, and    *)
(* the command_handler task that takes the commands.                       *)
(***************************************************************************)
EXTENDS Integers, Sequences, FiniteSets, TLC

\* ------------------------------------------------------------------ bounds
\* Number of segments fed to the session in one run.
MaxSegs == 3
\* Capacity of the command channel handed to the session.
ChanCap == 2
\* Length of the backlog a caller-built session starts with (InitPub).
MaxBacklog == 2
\* Events the broadcast channel of server events retains (the service builds
\* it with 1024).
EventCap == 2

\* ------------------------------------------------------- program constants
\* find_mentions(&segment, 70)
THRESHOLD == 70

\* --------------------------------------------------------------- the catalog
\* The SubTopicList the session is constructed with (names in catalog order).
Catalog == <<"Stacks", "Queues">>

\* The catalog name the analyzer's verdicts are about, in every combination
\* of flags.
VerdictNames == {"Stacks"}

Fields == <<"has_definition", "has_mechanism", "has_example">>

\* ------------------------------------------------------------------- texts
\* A text is a sequence of tokens; a token is one transcribed utterance
\* (identified by its arrival number) or the single space join() inserts.
Words == {"um", "stack"}
SP == [id |-> 0, w |-> " "]
Utterance(i, w) == <<[id |-> i, w |-> w]>>

\* Vec<String>::join(" ")
RECURSIVE Join(_)
Join(buf) ==
    IF buf = <<>> THEN <<>>
    ELSE IF Len(buf) = 1 THEN buf[1]
    ELSE buf[1] \o <<SP>> \o Join(Tail(buf))

\* Arrival numbers of the utterances a text contains.
Ids(text) == {text[i].id : i \in 1..Len(text)} \ {0}
RECURSIVE BufIds(_)
BufIds(buf) == IF buf = <<>> THEN {} ELSE Ids(Head(buf)) \cup BufIds(Tail(buf))

\* SkimMatcherV2::fuzzy_match(text, name).unwrap_or(0): the score of the best
\* alignment of the name inside the text (None -> 0).
WordScore(w, name) ==
    IF w = "stack" /\ name = "Stacks" THEN 80
    ELSE IF w = "stak" /\ name = "Stacks" THEN 70
    ELSE IF w = "queue" /\ name = "Queues" THEN 80
    ELSE 0
RECURSIVE FuzzyScore(_, _)
FuzzyScore(text, name) ==
    IF text = <<>> THEN 0
    ELSE LET h == WordScore(Head(text).w, name)
             t == FuzzyScore(Tail(text), name)
         IN IF h > t THEN h ELSE t

\* A filter that also keeps a score equal to the threshold.
FindMentionsAtOrAbove(catalog, text, threshold) ==
    SelectSeq(catalog, LAMBDA name : FuzzyScore(text, name) >= threshold)

\* SubTopicList::find_mentions on the catalog `self.subtopics`: the entries
\* scoring above the threshold, in catalog order.
FindMentionsIn(catalog, text, threshold) ==
    SelectSeq(catalog, LAMBDA name : FuzzyScore(text, name) > threshold)

\* find_mentions on the catalog the session was constructed with.
FindMentions(text, threshold) == FindMentionsIn(Catalog, text, threshold)

\* str::to_lowercase on the names used here.
ToLower(name) ==
    IF name = "Stacks" THEN "stacks"
    ELSE IF name = "Queues" THEN "queues"
    ELSE name

\* A constructor that refuses a list with two names equal up to case.
NewRejectingDuplicates(subtopics) ==
    IF \E i, j \in 1..Len(subtopics) :
            i # j /\ ToLower(subtopics[i]) = ToLower(subtopics[j])
    THEN [ok |-> FALSE, subtopics |-> <<>>]
    ELSE [ok |-> TRUE, subtopics |-> subtopics]

\* SubTopicList::new: the list is taken as it is; there is no failure.
New(subtopics) == [ok |-> TRUE, subtopics |-> subtopics]

\* ------------------------------------------------------------------ ledger
SubTopic(d, m, e) == [has_definition |-> d, has_mechanism |-> m, has_example |-> e]
IsComplete(st) == st.has_definition /\ st.has_mechanism /\ st.has_example
EmptyMap == [n \in {} |-> SubTopic(FALSE, FALSE, FALSE)]
\* HashMap::insert
MapInsert(map, name, st) ==
    [n \in (DOMAIN map) \cup {name} |-> IF n = name THEN st ELSE map[n]]
\* HashMap::remove
MapRemove(map, name) == [n \in (DOMAIN map) \ {name} |-> map[n]]

\* A verdict that is not complete takes the name out of covered_subtopics.
RecordVerdictDemote(cov, inc, name, d, m, e) ==
    IF d /\ m /\ e
    THEN [cov |-> MapInsert(cov, name, SubTopic(d, m, e)), inc |-> inc]
    ELSE [cov |-> MapRemove(cov, name), inc |-> MapInsert(inc, name, SubTopic(d, m, e))]

\* recordVerdict as process_analyzing performs it: a complete verdict is
\* inserted into covered_subtopics, any other into incomplete_subtopics.
RecordVerdict(cov, inc, name, d, m, e) ==
    IF d /\ m /\ e
    THEN [cov |-> MapInsert(cov, name, SubTopic(d, m, e)), inc |-> inc]
    ELSE [cov |-> cov, inc |-> MapInsert(inc, name, SubTopic(d, m, e))]

\* An update that starts from a fresh all-false entry every time.
UpdateSubtopicFieldFresh(inc, name, field, value) ==
    LET old == SubTopic(FALSE, FALSE, FALSE)
        new == IF field \in {Fields[i] : i \in 1..Len(Fields)}
               THEN [old EXCEPT ![field] = value] ELSE old
    IN MapInsert(inc, name, new)

\* update_subtopic_field: entry(name).or_insert(all false), then set the
\* named flag; an unknown field name changes no flag.
UpdateSubtopicField(inc, name, field, value) ==
    LET old == IF name \in DOMAIN inc THEN inc[name]
               ELSE SubTopic(FALSE, FALSE, FALSE)
        new == IF field \in {Fields[i] : i \in 1..Len(Fields)}
               THEN [old EXCEPT ![field] = value] ELSE old
    IN MapInsert(inc, name, new)

\* A completeness test that is satisfied by one flag.
IsSubtopicCompleteAny(inc, name) ==
    IF name \in DOMAIN inc
    THEN inc[name].has_definition \/ inc[name].has_mechanism \/ inc[name].has_example
    ELSE FALSE

\* is_subtopic_complete
IsSubtopicComplete(inc, name) ==
    IF name \in DOMAIN inc THEN IsComplete(inc[name]) ELSE FALSE

\* A ledger update that sets the flag and never moves the entry.
ConfirmFieldNoMove(cov, inc, name, field) ==
    [cov |-> cov, inc |-> UpdateSubtopicField(inc, name, field, TRUE)]

\* The ledger update analyze_answer makes for a correct answer.
ConfirmField(cov, inc, name, field) ==
    LET inc1 == UpdateSubtopicField(inc, name, field, TRUE)
    IN IF IsSubtopicComplete(inc1, name)
       THEN [cov |-> MapInsert(cov, name, inc1[name]), inc |-> MapRemove(inc1, name)]
       ELSE [cov |-> cov, inc |-> inc1]

\* ---------------------------------------------------------- analyzer replies
\* JSON values are kept as they arrive: "true"/"false"/"null" for a flag
\* ("1" for a flag that is a number), "null" for an absent string.
\* A default of true for what is not a boolean.
AsBoolOrTrue(v) == v # "false"
\* Value::as_bool().unwrap_or(false)
AsBoolOrFalse(v) == v = "true"
\* Option<&str>::unwrap_or("")
AsStrOrEmpty(v) == IF v = "null" THEN "" ELSE v

Question(f, q) == [field |-> f, question |-> q]
Elem(n, d, m, e, qs) ==
    [subtopic |-> n, has_definition |-> d, has_mechanism |-> m,
     has_example |-> e, questions |-> qs]

\* One clarifying question per flag that is not true, in field order: what the
\* prompt asks the analyzer for.
QsMissing(d, m, e) ==
    (IF d = "true" THEN <<>> ELSE <<Question("has_definition", "def?")>>)
    \o (IF m = "true" THEN <<>> ELSE <<Question("has_mechanism", "mech?")>>)
    \o (IF e = "true" THEN <<>> ELSE <<Question("has_example", "ex?")>>)

JsonBool == {"true", "false"}
\* Well-formed verdict elements, with or without their questions.
PlainElems ==
    {Elem(n, d, m, e, qs) :
        n \in VerdictNames, d \in JsonBool, m \in JsonBool, e \in JsonBool,
        qs \in {<<>>}} \cup
    {Elem(n, d, m, e, QsMissing(d, m, e)) :
        n \in VerdictNames, d \in JsonBool, m \in JsonBool, e \in JsonBool}
\* Odd shapes: a flag that is absent or a number, a question without a field, a complete
\* verdict that carries a question, a question about a flag the verdict has
\* as true, an element without a name, verdicts on a subtopic the catalog
\* does not have.
OddElems ==
    { Elem("Ghost", "true", "true", "true", <<>>),
      Elem("Ghost", "true", "true", "false", QsMissing("true", "true", "false")) } \cup
    { Elem("Stacks", "null", "true", "true", <<Question("has_definition", "def?")>>),
      Elem("Stacks", "true", "false", "true", <<Question("null", "mech?")>>),
      Elem("Stacks", "true", "true", "true", <<Question("has_example", "ex?")>>),
      Elem("Stacks", "true", "true", "false",
           <<Question("has_example", "ex?"), Question("has_mechanism", "mech?")>>),
      Elem("Stacks", "true", "1", "true", <<Question("has_mechanism", "how?")>>),
      Elem("null", "true", "true", "true", <<>>) }
\* Two-element arrays.
PairArrays ==
    { <<Elem("Stacks", "true", "false", "false", QsMissing("true", "false", "false")),
        Elem("Ghost", "false", "true", "true", QsMissing("false", "true", "true"))>>,
      <<Elem("Stacks", "true", "true", "true", <<>>),
        Elem("null", "false", "false", "false", <<>>)>>,
      <<Elem("Stacks", "false", "true", "true", QsMissing("false", "true", "true")),
        Elem("null", "false", "false", "false", <<>>)>> }

\* What analyze_topic can come back with: a transport error, a reply that is
\* not JSON, JSON that is not an array, or an array of verdict elements.
Replies ==
    { [kind |-> "err", arr |-> <<>>], [kind |-> "notjson", arr |-> <<>>],
      [kind |-> "notarray", arr |-> <<>>], [kind |-> "array", arr |-> <<>>] }
    \cup { [kind |-> "array", arr |-> <<el>>] : el \in PlainElems \cup OddElems }
    \cup { [kind |-> "array", arr |-> a] : a \in PairArrays }

\* The questions of one verdict element, queued last-first.
ParseQuestionsReversed(name, qs) ==
    [i \in 1..Len(qs) |->
        [subtopic |-> name, field |-> AsStrOrEmpty(qs[Len(qs) + 1 - i].field),
         question |-> AsStrOrEmpty(qs[Len(qs) + 1 - i].question)]]

\* The questions of one verdict element, as process_analyzing queues them.
ParseQuestions(name, qs) ==
    [i \in 1..Len(qs) |->
        [subtopic |-> name, field |-> AsStrOrEmpty(qs[i].field),
         question |-> AsStrOrEmpty(qs[i].question)]]

\* The loop over the reply array: each element updates the ledger and adds
\* its questions; an element without a "subtopic" string ends the loop with
\* an error, the elements before it already applied.
RECURSIVE ApplyVerdicts(_, _, _, _)
ApplyVerdicts(arr, cov, inc, qq) ==
    IF arr = <<>> THEN [err |-> FALSE, cov |-> cov, inc |-> inc, qq |-> qq]
    ELSE LET el == Head(arr)
             d == AsBoolOrFalse(el.has_definition)
             m == AsBoolOrFalse(el.has_mechanism)
             e == AsBoolOrFalse(el.has_example)
             led == RecordVerdict(cov, inc, el.subtopic, d, m, e)
         IN IF el.subtopic = "null"
            THEN [err |-> TRUE, cov |-> cov, inc |-> inc, qq |-> qq]
            ELSE ApplyVerdicts(Tail(arr), led.cov, led.inc,
                    IF d /\ m /\ e THEN qq
                    ELSE qq \o ParseQuestions(el.subtopic, el.questions))

\* The result of handling a reply: failed (`?`), and the ledger and the
\* question list it leaves.
HandleReply(reply, cov, inc) ==
    IF reply.kind \in {"err", "notjson"}
    THEN [err |-> TRUE, cov |-> cov, inc |-> inc, qq |-> <<>>]
    ELSE IF reply.kind = "notarray"
    THEN [err |-> FALSE, cov |-> cov, inc |-> inc, qq |-> <<>>]
    ELSE ApplyVerdicts(reply.arr, cov, inc, <<>>)

\* ------------------------------------------------------------------- state
VARIABLES
    state,                        \* FeynmanSession.state
    in_between_buffer,            \* segments that arrived while Analyzing
    answer_buffer,                \* segments that answer the current question
    temp_context_buffer,          \* context for "where you left off"
    question_queue,               \* questions to deliver
    current_question_idx,
    pending_segments,             \* segments without a subtopic
    pending_no_subtopic_segment,
    covered_subtopics,
    incomplete_subtopics,
    answer_notify,                \* the Notify's stored permit
    pc,                           \* where the call in progress on the session is
    cur,                          \* the text that call is working on
    ret,                          \* the last call that returned, and how
    active,                       \* process_analyzing / analyze_answer calls in progress
    command_ch,                   \* commands sent and not yet received
    rx_open,                      \* the command Receiver still exists
    fed,                          \* segments handed to process_segment so far
    sent,                         \* utterances that were part of an analyzer call
    passed,                       \* texts given to process_analyzing by the last call
    topic_calls,                  \* analyze_topic calls made by the last process_segment
    snap,                         \* the buffers as the running process_analyzing found them
    emitted,                      \* every command a send put on the channel, in order
    received,                     \* every command the runtime took off it, in order
    events,                       \* server events broadcast and not yet received
    lagged,                       \* the broadcast channel overwrote an unreceived event
    alive,                        \* the server_handle task is still in its loop
    arrived,                      \* transcription events the transport has produced
    called,                       \* the transcriptions process_segment was called for
    lib,                          \* a call of a catalog function: its input and result
    speak,                        \* a request to speak a text, and the client calls made
    xlat                          \* an adapter's translation task and its two channels

sessionVars ==
    <<state, in_between_buffer, answer_buffer, temp_context_buffer, question_queue,
      current_question_idx, pending_segments, pending_no_subtopic_segment,
      covered_subtopics, incomplete_subtopics, answer_notify>>
transportVars == <<events, lagged, alive, arrived, called>>
benchVars == <<lib, speak, xlat>>
vars == <<sessionVars, pc, active, cur, ret,
          command_ch, rx_open, fed, sent, passed, topic_calls, snap,
          emitted, received, transportVars, benchVars>>

NoRet == [op |-> "none", res |-> "none", why |-> "none"]
Returned(op, res, why) == [op |-> op, res |-> res, why |-> why]

\* What the caller gets back: process_segment has no return value, whatever
\* became of its process_analyzing; analyze_answer returns its Result.
CallerSees(r) == IF r.op = "process_segment" THEN "unit" ELSE r.res

NoSnap == [pending |-> <<>>, backlog |-> <<>>]

\* No call in progress, nothing sent or received yet.
RunIdle ==
    /\ pc = "idle"
    /\ active = 0
    /\ cur = <<>>
    /\ ret = NoRet
    /\ command_ch = <<>>
    /\ rx_open = TRUE
    /\ fed = 0
    /\ sent = {}
    /\ passed = <<>>
    /\ topic_calls = 0
    /\ snap = NoSnap
    /\ emitted = <<>>
    /\ received = <<>>
    /\ events = <<>>
    /\ lagged = FALSE
    /\ alive = TRUE
    /\ arrived = 0
    /\ called = <<>>

\* Everything but the two fields a caller may have filled in (InitPub).
InitRest ==
    /\ answer_buffer = <<>>
    /\ temp_context_buffer = <<>>
    /\ question_queue = <<>>
    /\ current_question_idx = 0
    /\ pending_segments = <<>>
    /\ pending_no_subtopic_segment = FALSE
    /\ covered_subtopics = EmptyMap
    /\ incomplete_subtopics = EmptyMap
    /\ answer_notify = FALSE
    /\ RunIdle

\* No catalog function has been called.
NoCall == [op |-> "none", in |-> <<>>, out |-> <<>>]

\* No text has been given to speak, the realtime client has not been called.
NoSpeak ==
    [requests |-> <<>>, pos |-> "idle", by |-> "none", text |-> "", base |-> 0,
     failed |-> "none", res |-> "none"]

\* server_events has not been called on an adapter: no translation task.
NoTask ==
    [adapter |-> "none", q |-> <<>>, lagged |-> FALSE, closed |-> FALSE, produced |-> 0,
     task |-> "unspawned", why |-> "none", taken |-> <<>>, outs |-> <<>>,
     forwarded |-> <<>>, undelivered |-> <<>>, rx_open |-> TRUE]

BenchIdle == lib = NoCall /\ speak = NoSpeak /\ xlat = NoTask

\* FeynmanSession::new, a fresh command channel, no call made yet.
Init ==
    /\ state = "Listening"
    /\ in_between_buffer = <<>>
    /\ InitRest
    /\ BenchIdle

\* The utterances of a backlog of length n: they arrived before the run, in
\* the order -n, ..., -1.
Backlogs(n) ==
    {[i \in 1..n |-> Utterance(i - n - 1, f[i])] : f \in [1..n -> Words]}

\* A session whose public fields `state` and `in_between_buffer` were set by
\* the caller before the first call (both are `pub`): any phase process_segment
\* buffers in, any backlog up to MaxBacklog.
InitPub ==
    /\ state \in {"Listening", "Analyzing"}
    /\ \E n \in 0..MaxBacklog : in_between_buffer \in Backlogs(n)
    /\ InitRest
    /\ BenchIdle

\* ------------------------------------------------------------ small pieces
\* The text process_segment analyses in Listening: the saved context, a
\* space, the segment; the segment alone when no context is saved.
CombineWithContextSegmentFirst(ctx, segment) ==
    IF ctx # <<>> THEN segment \o <<SP>> \o Join(ctx) ELSE segment
CombineWithContext(ctx, segment) ==
    IF ctx # <<>> THEN Join(ctx) \o <<SP>> \o segment ELSE segment

\* The text sent to analyze_topic: the pending segments joined, a space when
\* that is not empty, the segment.
CombineWithPendingSegmentFirst(pending, segment) ==
    LET joined == Join(pending)
    IN segment \o (IF joined # <<>> THEN <<SP>> ELSE <<>>) \o joined
CombineWithPending(pending, segment) ==
    LET joined == Join(pending)
    IN joined \o (IF joined # <<>> THEN <<SP>> ELSE <<>>) \o segment

\* A push that loses the segment.
PushLost(buf, segment) == buf

\* Vec::push
Push(buf, segment) == Append(buf, segment)

\* A pop that leaves the item in the buffer.
PopBacklogKept(buf) == [item |-> buf[Len(buf)], rest |-> buf]
\* Vec::pop on the backlog: the item taken and what is left.
PopBacklog(buf) == [item |-> buf[Len(buf)], rest |-> SubSeq(buf, 1, Len(buf) - 1)]

\* The two buffering arms of the match exchanged.
ReceptacleSwapped(phase) ==
    IF phase = "Listening" THEN "analyze"
    ELSE IF phase = "Analyzing" THEN "answer_buffer"
    ELSE "in_between_buffer"

\* `match session.state`: where process_segment puts a segment.
Receptacle(phase) ==
    IF phase = "Listening" THEN "analyze"
    ELSE IF phase = "Analyzing" THEN "in_between_buffer"
    ELSE "answer_buffer"

\* Listening handing the segment straight to the answer phase.
PhaseSkipsAnalyzing == "AnalyzingAnswers"

\* The phase process_segment sets before it runs process_analyzing.
PhaseWhileAnalyzing == "Analyzing"

\* An Err arm that leaves the phase as it is.
PhaseLeftAnalyzing == "Analyzing"

\* The phase process_segment leaves when process_analyzing returned Err.
PhaseAfterError == "Listening"

\* A cursor that is not moved.
AdvanceCursorStay(idx) == idx

\* current_question_idx += 1
AdvanceCursor(idx) == idx + 1

\* mpsc::Sender::send: Ok while the Receiver exists (waiting for room when the
\* channel is full), Err once it is gone.
SendOk == rx_open
HasRoom == Len(command_ch) < ChanCap

SpeakText(text) == [cmd |-> "SpeakText", text |-> text]
SessionComplete(text) == [cmd |-> "SessionComplete", text |-> text]
FinalMessage == "Great, you've answered all the questions for now. Let's continue."

\* command_tx.send(cmd).await returning Ok: the command is on the channel.
Send(cmd) ==
    /\ command_ch' = Append(command_ch, cmd)
    /\ emitted' = Append(emitted, cmd)

\* The phase process_analyzing sets when it has queued no question and the
\* backlog is empty.
PhaseKeptWhenDrained == "Analyzing"
PhaseWhenDrained == "Listening"

\* The exit test of analyze_answer's wait loop: `!self.answer_buffer.is_empty()`.
WaitOverOnPermit(buf, permit) == buf # <<>> \/ permit
WaitOver(buf, permit) == buf # <<>>

\* reviewer.analyze_topic(&combined, &detected_subtopics).await is one call.
CountCallAndRetry(n) == n + 2
CountCall(n) == n + 1

\* `&mut self`: a method of the session can be entered only when no other
\* call on it is in progress.  FeynmanSession is owned by the one task that
\* calls it.
SessionShared == TRUE
SessionFree == pc = "idle"

\* ----------------------------------------------------------------- actions
\* process_segment is called with the next utterance.  In Listening it
\* becomes the start of process_analyzing; in the other phases the call
\* buffers the segment and returns.
ProcessSegmentCall(w) ==
    LET segment == Utterance(fed + 1, w) IN
    /\ SessionFree
    /\ fed < MaxSegs
    /\ fed' = fed + 1
    /\ IF Receptacle(state) = "analyze"
       THEN /\ cur' = CombineWithContext(temp_context_buffer, segment)
            /\ temp_context_buffer' = <<>>
            /\ state' = PhaseWhileAnalyzing
            /\ pc' = "analyzing"
            /\ active' = active + 1
            /\ ret' = NoRet
            /\ passed' = <<>>
            /\ topic_calls' = 0
            /\ UNCHANGED <<in_between_buffer, answer_buffer, answer_notify>>
       ELSE IF Receptacle(state) = "in_between_buffer"
       THEN /\ in_between_buffer' = Push(in_between_buffer, segment)
            /\ ret' = Returned("process_segment", "ok", "buffered")
            /\ UNCHANGED <<state, answer_buffer, temp_context_buffer, answer_notify,
                           pc, active, cur, passed, topic_calls, snap>>
       ELSE /\ answer_buffer' = Push(answer_buffer, segment)
            /\ answer_notify' = TRUE
            /\ ret' = Returned("process_segment", "ok", "answer")
            /\ UNCHANGED <<state, in_between_buffer, temp_context_buffer,
                           pc, active, cur, passed, topic_calls, snap>>
    /\ UNCHANGED <<question_queue, current_question_idx, pending_segments,
                   pending_no_subtopic_segment, covered_subtopics,
                   incomplete_subtopics, command_ch, rx_open, sent, snap,
                   emitted, received>>

\* A caller hands the next utterance to process_segment.
ProcessSegment(w) ==
    ProcessSegmentCall(w) /\ UNCHANGED <<transportVars, benchVars>>

\* The end of one process_analyzing invocation that queued no question: take
\* the next segment off the backlog and recurse, or go back to Listening.
DrainOrListen ==
    IF in_between_buffer # <<>>
    THEN /\ cur' = PopBacklog(in_between_buffer).item
         /\ in_between_buffer' = PopBacklog(in_between_buffer).rest
         /\ pc' = "analyzing"
         /\ UNCHANGED <<state, ret, active>>
    ELSE /\ state' = PhaseWhenDrained
         /\ pc' = "idle"
         /\ active' = active - 1
         /\ cur' = <<>>
         /\ ret' = Returned("process_segment", "ok", "listening")
         /\ UNCHANGED in_between_buffer

\* process_analyzing returned Err: process_segment logs it and resets the phase.
AnalysisFailed(why) ==
    /\ state' = PhaseAfterError
    /\ pc' = "idle"
    /\ active' = active - 1
    /\ cur' = <<>>
    /\ ret' = Returned("process_segment", "err", why)

\* process_analyzing up to its await of analyze_topic: a segment that
\* mentions no subtopic is kept in pending_segments; one that does is merged
\* with the pending text and sent to the analyzer.
ProcessAnalyzing ==
    /\ pc = "analyzing"
    /\ passed' = Append(passed, cur)
    /\ snap' = [pending |-> pending_segments, backlog |-> in_between_buffer]
    /\ IF FindMentions(cur, THRESHOLD) = <<>>
       THEN /\ pending_segments' = Push(pending_segments, cur)
            /\ pending_no_subtopic_segment' = TRUE
            /\ DrainOrListen
            /\ UNCHANGED <<sent, topic_calls>>
       ELSE /\ cur' = CombineWithPending(pending_segments, cur)
            /\ pending_segments' = <<>>
            /\ pending_no_subtopic_segment' = FALSE
            /\ pc' = "at_wait"
            /\ topic_calls' = CountCall(topic_calls)
            /\ sent' = sent \cup Ids(CombineWithPending(pending_segments, cur))
            /\ UNCHANGED <<state, in_between_buffer, ret, active>>
    /\ UNCHANGED <<answer_buffer, temp_context_buffer, question_queue,
                   current_question_idx, covered_subtopics, incomplete_subtopics,
                   answer_notify, command_ch, rx_open, fed, emitted, received,
                   transportVars, benchVars>>

\* analyze_topic comes back and the rest of process_analyzing runs: parse,
\* update the ledger, then drain the backlog or install the questions and
\* command the first one to be spoken.
AnalyzeTopicReturns(reply) ==
    LET r == HandleReply(reply, covered_subtopics, incomplete_subtopics) IN
    /\ pc = "at_wait"
    /\ (~r.err /\ r.qq # <<>> /\ SendOk) => HasRoom
    /\ covered_subtopics' = r.cov
    /\ incomplete_subtopics' = r.inc
    /\ IF r.err
       THEN /\ AnalysisFailed(IF reply.kind = "array" THEN "no_subtopic" ELSE reply.kind)
            /\ UNCHANGED <<in_between_buffer, question_queue, current_question_idx,
                           command_ch, emitted>>
       ELSE IF r.qq = <<>>
       THEN /\ DrainOrListen
            /\ UNCHANGED <<question_queue, current_question_idx, command_ch, emitted>>
       ELSE /\ question_queue' = r.qq
            /\ current_question_idx' = 0
            /\ IF SendOk
               THEN /\ Send(SpeakText(r.qq[1].question))
                    /\ state' = "AnalyzingAnswers"
                    /\ pc' = "idle"
                    /\ active' = active - 1
                    /\ cur' = <<>>
                    /\ ret' = Returned("process_segment", "ok", "questions")
               ELSE /\ AnalysisFailed("send")
                    /\ UNCHANGED <<command_ch, emitted>>
            /\ UNCHANGED in_between_buffer
    /\ UNCHANGED <<answer_buffer, temp_context_buffer, pending_segments,
                   pending_no_subtopic_segment, answer_notify, rx_open, fed, sent,
                   passed, topic_calls, snap, received, transportVars, benchVars>>

\* analyze_answer is called: without a current question it returns Err at
\* once, otherwise it enters its wait for answer content.
AnalyzeAnswer ==
    /\ SessionFree
    /\ IF current_question_idx < Len(question_queue)
       THEN /\ pc' = "aa_wait"
            /\ active' = active + 1
            /\ ret' = NoRet
       ELSE /\ ret' = Returned("analyze_answer", "err", "no_question")
            /\ UNCHANGED <<pc, active>>
    /\ UNCHANGED <<sessionVars, cur, command_ch, rx_open, fed, sent, passed, topic_calls, snap,
                   emitted, received, transportVars, benchVars>>

\* One turn of the wait loop: with content in answer_buffer the loop is left
\* and the joined answer goes to the reviewer; without, notified() returns
\* only by consuming a stored permit, and the loop checks again.
AwaitAnswer ==
    /\ pc = "aa_wait"
    /\ answer_buffer # <<>> \/ answer_notify
    /\ IF WaitOver(answer_buffer, answer_notify)
       THEN /\ pc' = "aa_call"
            /\ cur' = Join(answer_buffer)
            /\ sent' = sent \cup Ids(Join(answer_buffer))
            /\ UNCHANGED answer_notify
       ELSE /\ answer_notify' = FALSE
            /\ UNCHANGED <<pc, cur, sent>>
    /\ UNCHANGED <<state, in_between_buffer, answer_buffer, temp_context_buffer,
                   question_queue, current_question_idx, pending_segments,
                   pending_no_subtopic_segment, covered_subtopics,
                   incomplete_subtopics, ret, active, command_ch, rx_open, fed, passed, topic_calls,
                   snap, emitted, received, transportVars, benchVars>>

\* What the reviewer's analyze_answer can come back with.
Grades == {"true", "false", "err"}

\* The reviewer's grade arrives and the rest of analyze_answer runs.  An Err
\* from the reviewer is returned as it is (`?`).  Otherwise a correct answer
\* updates the ledger, the buffer is cleared, the cursor advances, and the
\* next question or the completion message is sent.
AnalyzeAnswerReturns(grade) ==
    LET q == question_queue[current_question_idx + 1]
        led == IF grade = "true"
               THEN ConfirmField(covered_subtopics, incomplete_subtopics,
                                 q.subtopic, q.field)
               ELSE [cov |-> covered_subtopics, inc |-> incomplete_subtopics]
        idx == AdvanceCursor(current_question_idx)
    IN
    /\ pc = "aa_call"
    /\ (grade # "err" /\ SendOk) => HasRoom
    /\ pc' = "idle"
    /\ active' = active - 1
    /\ cur' = <<>>
    /\ IF grade = "err"
       THEN /\ ret' = Returned("analyze_answer", "err", "reviewer")
            /\ UNCHANGED <<state, answer_buffer, question_queue, current_question_idx,
                           covered_subtopics, incomplete_subtopics, command_ch, emitted>>
       ELSE /\ covered_subtopics' = led.cov
            /\ incomplete_subtopics' = led.inc
            /\ answer_buffer' = <<>>
            /\ IF ~SendOk
               THEN /\ current_question_idx' = idx
                    /\ ret' = Returned("analyze_answer", "err", "send")
                    /\ UNCHANGED <<state, question_queue, command_ch, emitted>>
               ELSE IF idx < Len(question_queue)
               THEN /\ current_question_idx' = idx
                    /\ Send(SpeakText(question_queue[idx + 1].question))
                    /\ ret' = Returned("analyze_answer", "ok", "next")
                    /\ UNCHANGED <<state, question_queue>>
               ELSE /\ Send(SessionComplete(FinalMessage))
                    /\ question_queue' = <<>>
                    /\ current_question_idx' = 0
                    /\ state' = "Listening"
                    /\ ret' = Returned("analyze_answer", "ok", "complete")
    /\ UNCHANGED <<in_between_buffer, temp_context_buffer, pending_segments,
                   pending_no_subtopic_segment, answer_notify, rx_open, fed, sent,
                   passed, topic_calls, snap, received, transportVars, benchVars>>

\* The runtime's command_handler task takes the next command off the channel.
CommandHandler ==
    /\ rx_open
    /\ command_ch # <<>>
    /\ received' = Append(received, Head(command_ch))
    /\ command_ch' = Tail(command_ch)
    /\ UNCHANGED <<sessionVars, pc, active, cur, ret,
                   rx_open, fed, sent, passed, topic_calls, snap, emitted,
                   transportVars, benchVars>>

\* The Receiver of the command channel is dropped by its owner.
CloseReceiver ==
    /\ rx_open
    /\ rx_open' = FALSE
    /\ UNCHANGED <<sessionVars, pc, active, cur, ret,
                   command_ch, fed, sent, passed, topic_calls, snap,
                   emitted, received, transportVars, benchVars>>

Next ==
    \/ \E w \in Words : ProcessSegment(w)
    \/ ProcessAnalyzing
    \/ \E reply \in Replies : AnalyzeTopicReturns(reply)
    \/ AnalyzeAnswer
    \/ AwaitAnswer
    \/ \E grade \in Grades : AnalyzeAnswerReturns(grade)
    \/ CommandHandler
    \/ CloseReceiver

Spec == Init /\ [][Next]_vars


\* The service's runtime (services/feynman/src/main.rs): the server_handle
\* task calls process_segment for every transcription and nothing else on the
\* session, the command_handler task receives the commands and lives as long
\* as the senders.  Every task that can run eventually does.
ServerNext ==
    \/ \E w \in Words : ProcessSegment(w)
    \/ ProcessAnalyzing
    \/ \E reply \in Replies : AnalyzeTopicReturns(reply)
    \/ CommandHandler

ServerSpec ==
    /\ Init
    /\ [][ServerNext]_vars
    /\ WF_vars(\E w \in Words : ProcessSegment(w))
    /\ WF_vars(ProcessAnalyzing)
    /\ WF_vars(\E reply \in Replies : AnalyzeTopicReturns(reply))
    /\ WF_vars(CommandHandler)

\* process_segment calls on a session the caller has prepared.
SpecPub == InitPub /\ [][ServerNext]_vars

\* A caller of the whole API that keeps making every call it can make: each
\* operation and each continuation of a call in progress eventually runs when
\* it stays possible.  Only the dropping of the Receiver is left to chance.
FairSpec ==
    /\ Init
    /\ [][Next]_vars
    /\ WF_vars(\E w \in Words : ProcessSegment(w))
    /\ WF_vars(ProcessAnalyzing)
    /\ WF_vars(\E reply \in Replies : AnalyzeTopicReturns(reply))
    /\ WF_vars(AnalyzeAnswer)
    /\ WF_vars(AwaitAnswer)
    /\ WF_vars(\E grade \in Grades : AnalyzeAnswerReturns(grade))
    /\ WF_vars(CommandHandler)


\* The whole API on a session that the caller hands over in Listening with
\* segments already in its public in_between_buffer: the only way segments are
\* in that buffer when a batch of questions ends, since no call can add to it
\* while another call holds the session.
InitBacklog ==
    /\ state = "Listening"
    /\ \E n \in 0..MaxBacklog : in_between_buffer \in Backlogs(n)
    /\ InitRest
    /\ BenchIdle

BacklogSpec == InitBacklog /\ [][Next]_vars


\* process_segment calls on a session whose public temp_context_buffer the
\* caller has filled: nothing in the crate writes to it, so this is the only
\* way the Listening arm finds context to prepend.
InitContext ==
    /\ state = "Listening"
    /\ in_between_buffer = <<>>
    /\ answer_buffer = <<>>
    /\ \E n \in 0..MaxBacklog : temp_context_buffer \in Backlogs(n)
    /\ question_queue = <<>>
    /\ current_question_idx = 0
    /\ pending_segments = <<>>
    /\ pending_no_subtopic_segment = FALSE
    /\ covered_subtopics = EmptyMap
    /\ incomplete_subtopics = EmptyMap
    /\ answer_notify = FALSE
    /\ RunIdle
    /\ BenchIdle

ContextSpec == InitContext /\ [][ServerNext]_vars


\* ------------------------------------------------------ the catalog functions
\* Inputs of the catalog functions: lists of names, texts of up to MaxWords
\* words, thresholds around the scores the matcher gives.
MaxWords == 2
CatalogWords == {"um", "stack", "stak", "queue"}
CatalogLists ==
    { <<>>, <<"Stacks">>, <<"Queues">>, <<"Stacks", "Queues">>, <<"Queues", "Stacks">>,
      <<"Stacks", "stacks">>, <<"Stacks", "Stacks">>, <<"stacks", "Queues">> }
Thresholds == {0, THRESHOLD, 80}
TextsOf(n) == {[i \in 1..n |-> [id |-> i, w |-> f[i]]] : f \in [1..n -> CatalogWords]}
InputTexts == UNION {TextsOf(n) : n \in 0..MaxWords}

FindMentionsInputs ==
    { [op |-> "find_mentions",
       in |-> [catalog |-> c, text |-> t, threshold |-> th], out |-> <<>>] :
        c \in CatalogLists, t \in InputTexts, th \in Thresholds }
NewInputs ==
    { [op |-> "new", in |-> [subtopics |-> c], out |-> <<>>] : c \in CatalogLists }

\* A program that is about to call one of the catalog functions.
InitCatalog ==
    /\ state = "Listening"
    /\ in_between_buffer = <<>>
    /\ InitRest
    /\ lib \in FindMentionsInputs \cup NewInputs
    /\ speak = NoSpeak
    /\ xlat = NoTask

\* subtopic_list.find_mentions(text, threshold): the result, and the catalog
\* as the call leaves it (`&self`).
CallFindMentions ==
    /\ lib.op = "find_mentions"
    /\ lib.out = <<>>
    /\ lib' = [lib EXCEPT !.out =
                    [mentions |-> FindMentionsIn(lib.in.catalog, lib.in.text,
                                                 lib.in.threshold),
                     catalog |-> lib.in.catalog]]
    /\ UNCHANGED <<sessionVars, pc, active, cur, ret,
                   command_ch, rx_open, fed, sent, passed, topic_calls,
                   snap, emitted, received, transportVars, speak, xlat>>

\* SubTopicList::new(subtopics)
CallNew ==
    /\ lib.op = "new"
    /\ lib.out = <<>>
    /\ lib' = [lib EXCEPT !.out = New(lib.in.subtopics)]
    /\ UNCHANGED <<sessionVars, pc, active, cur, ret,
                   command_ch, rx_open, fed, sent, passed, topic_calls,
                   snap, emitted, received, transportVars, speak, xlat>>

CatalogNext == CallFindMentions \/ CallNew

CatalogSpec == InitCatalog /\ [][CatalogNext]_vars


\* ------------------------------------------------------- making the AI speak
\* OpenAIAdapter::create_spoken_response(text) and ClientHandler::handle_input
\* on Input::CreateSpokenResponse(text) are the same two awaited calls on the
\* realtime client, each followed by `?`.  speak.requests is what the client
\* was asked to send, in order; a call that fails has still been made.
MaxSpeaks == 2
SpokenTexts == {"def?", "mech?", "ex?"}
Speakers == {"OpenAIAdapter", "ClientHandler"}

\* Item::Message(MessageItem::builder().with_role(System).with_input_text(text))
\* inside a conversation.item.create, and a plain response.create.
ConversationItemCreate(text) ==
    [event |-> "conversation.item.create", role |-> "System", input_text |-> <<text>>]
ResponseCreate ==
    [event |-> "response.create", role |-> "none", input_text |-> <<>>]

\* Where the function goes after create_conversation_item(...).await...?
AfterItemIgnoringError(ok) == "create_response"
AfterItem(ok) == IF ok THEN "create_response" ELSE "returned"

Spoken == Len(SelectSeq(speak.requests, LAMBDA r : r.event = "conversation.item.create"))

\* The function is entered with the text.
CreateSpokenResponse(by, text) ==
    /\ speak.pos \in {"idle", "returned"}
    /\ Spoken < MaxSpeaks
    /\ speak' = [speak EXCEPT !.pos = "create_conversation_item", !.by = by,
                              !.text = text, !.base = Len(speak.requests),
                              !.failed = "none", !.res = "none"]
    /\ UNCHANGED <<sessionVars, pc, active, cur, ret,
                   command_ch, rx_open, fed, sent, passed, topic_calls,
                   snap, emitted, received, transportVars, lib, xlat>>

\* client.create_conversation_item(Item::Message(item)).await.context(..)?
CreateConversationItemReturns(ok) ==
    /\ speak.pos = "create_conversation_item"
    /\ speak' = [speak EXCEPT
                    !.requests = Append(@, ConversationItemCreate(speak.text)),
                    !.pos = AfterItem(ok),
                    !.failed = IF ok THEN "none" ELSE "item",
                    !.res = IF AfterItem(ok) = "returned" THEN "Err" ELSE "none"]
    /\ UNCHANGED <<sessionVars, pc, active, cur, ret,
                   command_ch, rx_open, fed, sent, passed, topic_calls,
                   snap, emitted, received, transportVars, lib, xlat>>

\* client.create_response().await.context(..)?  and then Ok(())
CreateResponseReturns(ok) ==
    /\ speak.pos = "create_response"
    /\ speak' = [speak EXCEPT
                    !.requests = Append(@, ResponseCreate),
                    !.pos = "returned",
                    !.failed = IF ok THEN @ ELSE "response",
                    !.res = IF ok THEN "Ok" ELSE "Err"]
    /\ UNCHANGED <<sessionVars, pc, active, cur, ret,
                   command_ch, rx_open, fed, sent, passed, topic_calls,
                   snap, emitted, received, transportVars, lib, xlat>>

SpeakNext ==
    \/ \E by \in Speakers, text \in SpokenTexts : CreateSpokenResponse(by, text)
    \/ \E ok \in BOOLEAN : CreateConversationItemReturns(ok)
    \/ \E ok \in BOOLEAN : CreateResponseReturns(ok)

SpeakSpec == Init /\ [][SpeakNext]_vars


\* ------------------------------------------------------------ the transport
\* Server events as the service's loop sees them: a completed transcription
\* (with its arrival number) or any of the events it only logs or forwards.
Transcription(n, w) == [kind |-> "transcription", n |-> n, w |-> w]
OtherEvent == [kind |-> "other", n |-> 0, w |-> "um"]

\* tokio broadcast send towards one receiver that has n events unreceived:
\* the event is kept; the oldest unreceived one is overwritten when the
\* channel already retains its capacity.
BroadcastSend(q, e) ==
    IF Len(q) < EventCap THEN Append(q, e) ELSE Append(Tail(q), e)

\* The reader task of Client::connect parses a websocket message and
\* broadcasts the event.  EventCap stands for a capacity of 1024: the loop is
\* overtaken by that many events only while it is held up by an analyzer
\* round trip, so only then does the reader fill the channel beyond capacity.
ReaderTask(transcribed, w) ==
    LET e == IF transcribed THEN Transcription(arrived + 1, w) ELSE OtherEvent IN
    /\ transcribed => arrived < MaxSegs
    /\ (alive /\ Len(events) = EventCap) => pc = "at_wait"
    /\ arrived' = IF transcribed THEN arrived + 1 ELSE arrived
    /\ IF alive
       THEN /\ events' = BroadcastSend(events, e)
            /\ lagged' = (lagged \/ Len(events) = EventCap)
       ELSE UNCHANGED <<events, lagged>>
    /\ UNCHANGED <<alive, called, benchVars>>
    /\ UNCHANGED <<sessionVars, pc, active, cur, ret,
                   command_ch, rx_open, fed, sent, passed, topic_calls,
                   snap, emitted, received>>

\* One turn of `while let Ok(e) = server_events.recv().await`: a receiver
\* that was overtaken gets Err(Lagged) and the loop ends; otherwise the next
\* event is taken, and a transcription is handed to process_segment, which
\* the loop awaits before it receives again.
ServerHandle ==
    /\ alive
    /\ pc = "idle"
    /\ UNCHANGED benchVars
    /\ lagged \/ events # <<>>
    /\ IF lagged
       THEN /\ alive' = FALSE
            /\ lagged' = FALSE
            /\ events' = <<>>
            /\ UNCHANGED <<arrived, called>>
            /\ UNCHANGED <<sessionVars, pc, active, cur, ret, command_ch, rx_open, fed, sent,
                           passed, topic_calls, snap, emitted, received>>
       ELSE /\ events' = Tail(events)
            /\ UNCHANGED <<alive, lagged, arrived>>
            /\ IF Head(events).kind = "transcription"
               THEN /\ ProcessSegmentCall(Head(events).w)
                    /\ called' = Append(called, Head(events).n)
               ELSE /\ UNCHANGED called
                    /\ UNCHANGED <<sessionVars, pc, active, cur, ret, command_ch, rx_open, fed,
                                   sent, passed, topic_calls, snap, emitted, received>>

\* The service with its transport: the reader task broadcasts, the
\* server_handle task receives and calls process_segment, the command_handler
\* task takes the commands.
TransportNext ==
    \/ \E transcribed \in BOOLEAN, w \in Words : ReaderTask(transcribed, w)
    \/ ServerHandle
    \/ ProcessAnalyzing
    \/ \E reply \in Replies : AnalyzeTopicReturns(reply)
    \/ CommandHandler

TransportSpec == Init /\ [][TransportNext]_vars


\* ------------------------------------------------ the adapters' translation
\* server_events() of an adapter subscribes to the provider client's broadcast
\* channel and spawns a task that turns what it receives into
\* GenericServerEvents on an mpsc channel whose Receiver the caller gets.
MaxMsgs == 3
Adapters == {"GeminiAdapter", "OpenAIAdapter"}

\* GenericServerEvent
GTranscription(text) == [ev |-> "Transcription", text |-> text]
Speaking == [ev |-> "Speaking", text |-> ""]
SpeakingDone == [ev |-> "SpeakingDone", text |-> ""]
GError(msg) == [ev |-> "Error", text |-> msg]
Closed == [ev |-> "Closed", text |-> ""]

\* A Gemini ServerMessage: whether it has server_content, and in it the
\* input_transcription (its text or "null"), the model_turn ("null", "text"
\* for parts without inline_data, "audio" for a part with it) and turn_complete.
ServerMessage(content, tr, turn, done) ==
    [api |-> "gemini", server_content |-> content, input_transcription |-> tr,
     model_turn |-> turn, turn_complete |-> done]
GeminiMessages ==
    { ServerMessage(FALSE, "null", "null", "null"),
      ServerMessage(TRUE, "hello", "null", "null"),
      ServerMessage(TRUE, "null", "audio", "null"),
      ServerMessage(TRUE, "null", "text", "null"),
      ServerMessage(TRUE, "null", "null", "true"),
      ServerMessage(TRUE, "null", "null", "false"),
      ServerMessage(TRUE, "hello", "audio", "true") }

\* An OpenAI ServerEvent, by its type and the text it carries.
ServerEvent(type, text) == [api |-> "openai", type |-> type, text |-> text]
OpenAIEvents ==
    { ServerEvent("conversation.item.input_audio_transcription.completed", "hello"),
      ServerEvent("response.audio.delta", ""),
      ServerEvent("response.done", ""),
      ServerEvent("error", "boom"),
      ServerEvent("close", ""),
      ServerEvent("session.created", "") }

ProviderMessages(adapter) ==
    IF adapter = "GeminiAdapter" THEN GeminiMessages ELSE OpenAIEvents

\* The sends the Gemini task makes for one message, in program order.
TranslateGeminiDoneFirst(m) ==
    IF ~m.server_content THEN <<>>
    ELSE (IF m.turn_complete = "true" THEN <<SpeakingDone>> ELSE <<>>)
         \o (IF m.input_transcription # "null"
             THEN <<GTranscription(m.input_transcription)>> ELSE <<>>)
         \o (IF m.model_turn = "audio" THEN <<Speaking>> ELSE <<>>)
TranslateGemini(m) ==
    IF ~m.server_content THEN <<>>
    ELSE (IF m.input_transcription # "null"
          THEN <<GTranscription(m.input_transcription)>> ELSE <<>>)
         \o (IF m.model_turn = "audio" THEN <<Speaking>> ELSE <<>>)
         \o (IF m.turn_complete = "true" THEN <<SpeakingDone>> ELSE <<>>)

\* The match of the OpenAI task: Some(generic event) or None.
TranslateOpenAI(e) ==
    CASE e.type = "conversation.item.input_audio_transcription.completed" ->
            <<GTranscription(e.text)>>
      [] e.type = "response.audio.delta" -> <<Speaking>>
      [] e.type = "response.done" -> <<SpeakingDone>>
      [] e.type = "error" -> <<GError(e.text)>>
      [] e.type = "close" -> <<Closed>>
      [] OTHER -> <<>>

Translate(adapter, m) ==
    IF adapter = "GeminiAdapter" THEN TranslateGemini(m) ELSE TranslateOpenAI(m)

\* The task as spawned: subscribed, at its first recv().await.
Spawned(adapter) == [NoTask EXCEPT !.adapter = adapter, !.task = "recv"]

InitTranslate ==
    /\ state = "Listening"
    /\ in_between_buffer = <<>>
    /\ InitRest
    /\ lib = NoCall
    /\ speak = NoSpeak
    /\ xlat \in {Spawned(a) : a \in Adapters}

\* The provider client broadcasts a message.
ProviderSends(m) ==
    /\ xlat.produced < MaxMsgs
    /\ ~xlat.closed
    /\ m \in ProviderMessages(xlat.adapter)
    /\ xlat' = [xlat EXCEPT !.q = BroadcastSend(@, m),
                            !.lagged = @ \/ Len(xlat.q) = EventCap,
                            !.produced = @ + 1]
    /\ UNCHANGED <<sessionVars, pc, active, cur, ret,
                   command_ch, rx_open, fed, sent, passed, topic_calls,
                   snap, emitted, received, transportVars, lib, speak>>

\* The provider client, and with it the broadcast Sender, is dropped.
ProviderCloses ==
    /\ ~xlat.closed
    /\ xlat' = [xlat EXCEPT !.closed = TRUE]
    /\ UNCHANGED <<sessionVars, pc, active, cur, ret,
                   command_ch, rx_open, fed, sent, passed, topic_calls,
                   snap, emitted, received, transportVars, lib, speak>>

\* recv().await returns.  Lagged comes first, then the retained messages, then
\* Closed.  Gemini logs Lagged and goes on, and tells the caller of Closed;
\* for OpenAI `while let Ok(..)` ends on either.
TaskRecv ==
    /\ xlat.task = "recv"
    /\ xlat.lagged \/ xlat.q # <<>> \/ xlat.closed
    /\ xlat' =
        IF xlat.lagged
        THEN IF xlat.adapter = "GeminiAdapter"
             THEN [xlat EXCEPT !.lagged = FALSE]
             ELSE [xlat EXCEPT !.task = "stopped", !.why = "lagged"]
        ELSE IF xlat.q # <<>>
        THEN LET m == Head(xlat.q)
                 out == Translate(xlat.adapter, m) IN
             [xlat EXCEPT !.q = Tail(@), !.taken = Append(@, m), !.outs = out,
                          !.task = IF out = <<>> THEN "recv" ELSE "send"]
        ELSE IF xlat.adapter = "GeminiAdapter"
             THEN [xlat EXCEPT !.task = "stopped", !.why = "closed",
                               !.forwarded = IF xlat.rx_open THEN Append(@, Closed) ELSE @,
                               !.undelivered = IF xlat.rx_open THEN @ ELSE Append(@, Closed)]
             ELSE [xlat EXCEPT !.task = "stopped", !.why = "closed"]
    /\ UNCHANGED <<sessionVars, pc, active, cur, ret,
                   command_ch, rx_open, fed, sent, passed, topic_calls,
                   snap, emitted, received, transportVars, lib, speak>>

\* tx.send(event).await for the next event of the message in hand:
\* `if ... .is_err() { break; }`
TaskSend ==
    /\ xlat.task = "send"
    /\ xlat' =
        IF xlat.rx_open
        THEN [xlat EXCEPT !.forwarded = Append(@, Head(xlat.outs)), !.outs = Tail(@),
                          !.task = IF Tail(xlat.outs) = <<>> THEN "recv" ELSE "send"]
        ELSE [xlat EXCEPT !.undelivered = Append(@, Head(xlat.outs)), !.outs = <<>>,
                          !.task = "stopped", !.why = "receiver dropped"]
    /\ UNCHANGED <<sessionVars, pc, active, cur, ret,
                   command_ch, rx_open, fed, sent, passed, topic_calls,
                   snap, emitted, received, transportVars, lib, speak>>

\* The caller drops the Receiver of generic events.
DropGenericReceiver ==
    /\ xlat.rx_open
    /\ xlat.task # "unspawned"
    /\ xlat' = [xlat EXCEPT !.rx_open = FALSE]
    /\ UNCHANGED <<sessionVars, pc, active, cur, ret,
                   command_ch, rx_open, fed, sent, passed, topic_calls,
                   snap, emitted, received, transportVars, lib, speak>>

TranslateNext ==
    \/ \E m \in GeminiMessages \cup OpenAIEvents : ProviderSends(m)
    \/ ProviderCloses
    \/ TaskRecv
    \/ TaskSend
    \/ DropGenericReceiver

TranslateSpec == InitTranslate /\ [][TranslateNext]_vars

\* -------------------------------------------------------------- properties
\* Utterances still held in one of the four buffers.
Held ==
    BufIds(pending_segments) \cup BufIds(in_between_buffer)
        \cup BufIds(temp_context_buffer) \cup BufIds(answer_buffer)

\* C1: no segment is ever dropped: whenever process_analyzing is not just
\* deciding about it, every segment fed so far has been part of the text of an
\* analyze_topic or analyze_answer call or is still in one of pending_segments,
\* in_between_buffer, temp_context_buffer and answer_buffer, whatever the
\* analyzer answered.
C1_NoSegmentDropped ==
    pc # "analyzing" => \A i \in 1..fed : i \in sent \cup Held

\* C1 witness: after an unparsable reply to a call whose text merged a pending
\* segment with a new one, both are in no buffer any more: they are accounted
\* for by the text of the failed call alone.
C1_Witness ==
    /\ pc = "idle"
    /\ ret = Returned("process_segment", "err", "notjson")
    /\ snap.pending # <<>>
    /\ fed >= 2
    /\ \A i \in 1..fed : i \notin Held /\ i \in sent

\* C2: when the analyze_topic call fails (transport error or unparsable
\* reply), pending_segments and in_between_buffer hold what they held when the
\* failing process_analyzing invocation began.
C2_FailureKeepsBuffers ==
    (pc = "idle" /\ ret.op = "process_segment" /\ ret.res = "err"
        /\ ret.why \in {"err", "notjson"})
    => (pending_segments = snap.pending /\ in_between_buffer = snap.backlog)

\* C3: no subtopic name is a key of both covered_subtopics and
\* incomplete_subtopics.
C3_LedgerDisjoint ==
    (DOMAIN covered_subtopics) \cap (DOMAIN incomplete_subtopics) = {}

\* C4: while analyze_answer is blocked in its wait (answer_buffer empty, no
\* permit stored), process_segment can still be run on the session to feed it.
C4_WaiterCanBeFed ==
    (pc = "aa_wait" /\ answer_buffer = <<>> /\ ~answer_notify /\ fed < MaxSegs)
    => ENABLED (\E w \in Words : ProcessSegment(w))

\* C5: every grading that returns true or false moves the cursor on by
\* exactly one, and the grading of the last question leaves question_queue
\* empty, the cursor 0 and the phase Listening.
C5_DeliveryTerminates ==
    [][(pc = "aa_call" /\ pc' = "idle" /\ ret'.why # "reviewer")
        => IF current_question_idx + 1 < Len(question_queue)
           THEN /\ current_question_idx' = current_question_idx + 1
                /\ question_queue' = question_queue
           ELSE /\ question_queue' = <<>>
                /\ current_question_idx' = 0
                /\ state' = "Listening"]_vars

\* What does hold of the code for C5: the same, for gradings whose command is
\* accepted by the channel.
C5_WhenSendSucceeds ==
    [][(pc = "aa_call" /\ pc' = "idle" /\ ret'.res = "ok")
        => IF current_question_idx + 1 < Len(question_queue)
           THEN /\ current_question_idx' = current_question_idx + 1
                /\ question_queue' = question_queue
           ELSE /\ question_queue' = <<>>
                /\ current_question_idx' = 0
                /\ state' = "Listening"]_vars

\* C6: a failed analyze_answer call of the reviewer counts as an incorrect
\* answer: the ledger is unchanged and the cursor advances to the next
\* question, or the batch completes.
C6_GradingFailureAdvances ==
    [][(pc = "aa_call" /\ pc' = "idle" /\ ret'.why = "reviewer")
        => /\ UNCHANGED <<covered_subtopics, incomplete_subtopics>>
           /\ \/ current_question_idx' = current_question_idx + 1
              \/ (question_queue' = <<>> /\ current_question_idx' = 0
                    /\ state' = "Listening")]_vars

\* C7: whenever the phase is Analyzing or AnalyzingAnswers it is eventually
\* Listening again.
C7_AlwaysBackToListening ==
    (state \in {"Analyzing", "AnalyzingAnswers"}) ~> (state = "Listening")

\* What does hold of the service for C7: no step of its tasks leaves
\* AnalyzingAnswers, however many segments are still to come.
C7_AnswerPhaseNeverLeft ==
    [][state = "AnalyzingAnswers" => state' = "AnalyzingAnswers"]_vars

\* The earliest utterance of a text.
FirstId(text) == CHOOSE i \in Ids(text) : \A j \in Ids(text) : i <= j

\* C8: the backlog is drained oldest-first: of two buffered segments, the one
\* that arrived first is given to process_analyzing first.  (passed[1] is the
\* segment of the call itself, the rest came off in_between_buffer.)
C8_DrainOldestFirst ==
    \A i, j \in 2..Len(passed) :
        i < j => FirstId(passed[i]) < FirstId(passed[j])

\* What process_segment may not touch when it only buffers a segment.
BufferingFrame ==
    UNCHANGED <<state, temp_context_buffer, question_queue, current_question_idx,
                pending_segments, pending_no_subtopic_segment, covered_subtopics,
                incomplete_subtopics, pc, cur, command_ch, sent, passed>>

\* C9: a process_segment call in Analyzing appends the segment to
\* in_between_buffer and changes nothing else; in AnalyzingAnswers it appends
\* it to answer_buffer and stores the wake-up, and changes nothing else: no
\* phase change, no analyzer call, no ledger update, no command.
C9_OneReceptacle ==
    [][(fed' = fed + 1 /\ state # "Listening")
        => /\ BufferingFrame
           /\ \E w \in Words :
                IF state = "Analyzing"
                THEN /\ in_between_buffer' =
                            Append(in_between_buffer, Utterance(fed + 1, w))
                     /\ UNCHANGED <<answer_buffer, answer_notify>>
                ELSE /\ answer_buffer' = Append(answer_buffer, Utterance(fed + 1, w))
                     /\ answer_notify'
                     /\ UNCHANGED in_between_buffer]_vars

\* C9 witness: process_segment has buffered a segment in Analyzing and returned.
C9_Witness ==
    /\ state = "Analyzing"
    /\ pc = "idle"
    /\ ret = Returned("process_segment", "ok", "buffered")
    /\ \E i \in 1..Len(in_between_buffer) : Ids(in_between_buffer[i]) = {fed}

PhaseMoves ==
    { <<"Listening", "Analyzing">>, <<"Analyzing", "Listening">>,
      <<"Analyzing", "AnalyzingAnswers">>, <<"AnalyzingAnswers", "Listening">> }

\* C10: the phase starts as Listening and changes only along
\* Listening->Analyzing, Analyzing->Listening, Analyzing->AnalyzingAnswers and
\* AnalyzingAnswers->Listening.
C10_PhaseMoves ==
    /\ state = "Listening"
    /\ [][state' # state => <<state, state'>> \in PhaseMoves]_vars

\* C10 witness: a batch of questions has been answered, so the phase has gone
\* round Listening, Analyzing, AnalyzingAnswers and back after an earlier
\* analysis failure had reset it.
C10_Witness ==
    /\ state = "Listening"
    /\ ret = Returned("analyze_answer", "ok", "complete")
    /\ fed = MaxSegs

\* The questions of the verdicts of a reply that are not complete, in the
\* order the analyzer gave them.
RECURSIVE VerdictQuestions(_)
VerdictQuestions(arr) ==
    IF arr = <<>> THEN <<>>
    ELSE LET el == Head(arr)
             complete == el.has_definition = "true" /\ el.has_mechanism = "true"
                            /\ el.has_example = "true"
             own == [i \in 1..Len(el.questions) |->
                        [subtopic |-> el.subtopic,
                         field |-> AsStrOrEmpty(el.questions[i].field),
                         question |-> AsStrOrEmpty(el.questions[i].question)]]
         IN (IF complete THEN <<>> ELSE own) \o VerdictQuestions(Tail(arr))

\* A step of a process_segment call (its entry, or one of its continuations).
ProcessSegmentStep ==
    \/ fed' # fed
    \/ pc \in {"analyzing", "at_wait"} /\ (pc' # pc \/ passed' # passed)

\* What C11 says the call ends with, for the questions qs.
QuestionsInstalled(qs) ==
    /\ pc' = "idle"
    /\ ret' = Returned("process_segment", "ok", "questions")
    /\ question_queue' = qs
    /\ current_question_idx' = 0
    /\ state' = "AnalyzingAnswers"
    /\ emitted' = Append(emitted, SpeakText(qs[1].question))

AllThree(st) == st.has_definition /\ st.has_mechanism /\ st.has_example

\* C12: in every reachable state every entry of covered_subtopics has
\* has_definition, has_mechanism and has_example all true.
C12_CoveredComplete ==
    \A n \in DOMAIN covered_subtopics : AllThree(covered_subtopics[n])

\* C12 witness: covered_subtopics holds one entry a complete verdict put
\* there and one that a correct answer moved there from incomplete_subtopics.
C12_Witness ==
    /\ pc = "idle"
    /\ ret = Returned("analyze_answer", "ok", "complete")
    /\ DOMAIN covered_subtopics = {"Ghost", "Stacks"}
    /\ incomplete_subtopics = EmptyMap

\* C13: whenever process_segment or analyze_answer has returned, no entry of
\* incomplete_subtopics has all three flags true: an entry that becomes
\* complete has been moved to covered_subtopics by the same call.
C13_IncompleteNotComplete ==
    pc = "idle"
    => \A n \in DOMAIN incomplete_subtopics : ~AllThree(incomplete_subtopics[n])

\* C13 witness: of two questions about one subtopic the first was answered
\* correctly and left the entry in incomplete_subtopics with one flag still
\* missing.
C13_Witness ==
    /\ pc = "idle"
    /\ ret = Returned("analyze_answer", "ok", "next")
    /\ "Stacks" \in DOMAIN incomplete_subtopics
    /\ incomplete_subtopics["Stacks"] = SubTopic(TRUE, TRUE, FALSE)
    /\ "Stacks" \notin DOMAIN covered_subtopics

\* The entries of a map other than the one of name are as they were.
OthersKept(old, new, name) ==
    /\ (DOMAIN new) \ {name} = (DOMAIN old) \ {name}
    /\ \A m \in (DOMAIN old) \ {name} : new[m] = old[m]

\* C14: an answer graded correct sets exactly the flag the question is about
\* on incomplete_subtopics[question.subtopic] (an all-false entry is created
\* first if there is none) and moves the entry to covered_subtopics exactly
\* when its three flags are then true, otherwise it stays in
\* incomplete_subtopics; an answer graded incorrect leaves both maps unchanged.
C14_GradingUpdatesLedger ==
    [][\A grade \in {"true", "false"} :
        AnalyzeAnswerReturns(grade)
        => LET q == question_queue[current_question_idx + 1]
               n == q.subtopic
               old == IF n \in DOMAIN incomplete_subtopics
                      THEN incomplete_subtopics[n]
                      ELSE SubTopic(FALSE, FALSE, FALSE)
               new == IF q.field \in {"has_definition", "has_mechanism", "has_example"}
                      THEN [old EXCEPT ![q.field] = TRUE] ELSE old
           IN IF grade = "false"
              THEN UNCHANGED <<covered_subtopics, incomplete_subtopics>>
              ELSE /\ OthersKept(incomplete_subtopics, incomplete_subtopics', n)
                   /\ OthersKept(covered_subtopics, covered_subtopics', n)
                   /\ IF AllThree(new)
                      THEN /\ n \notin DOMAIN incomplete_subtopics'
                           /\ n \in DOMAIN covered_subtopics'
                           /\ covered_subtopics'[n] = new
                      ELSE /\ n \in DOMAIN incomplete_subtopics'
                           /\ incomplete_subtopics'[n] = new
                           /\ covered_subtopics' = covered_subtopics]_vars

\* C14 witness: the first correct answer completed the entry and moved it, the
\* second, about a flag of the same subtopic, found no entry and created one
\* with that flag alone.
C14_Witness ==
    /\ pc = "idle"
    /\ ret = Returned("analyze_answer", "ok", "complete")
    /\ "Stacks" \in DOMAIN covered_subtopics
    /\ "Stacks" \in DOMAIN incomplete_subtopics
    /\ incomplete_subtopics["Stacks"] = SubTopic(FALSE, TRUE, FALSE)

\* C15: covered entries are terminal and nothing is deleted from the ledger:
\* a name in covered_subtopics is in covered_subtopics, all three flags true,
\* after every step, and a name in one of the two maps is in at least one of
\* them after every step.
C15_CoveredTerminal ==
    [][/\ \A n \in DOMAIN covered_subtopics :
            n \in DOMAIN covered_subtopics' /\ AllThree(covered_subtopics'[n])
       /\ (DOMAIN covered_subtopics) \cup (DOMAIN incomplete_subtopics)
            \subseteq (DOMAIN covered_subtopics') \cup (DOMAIN incomplete_subtopics')]_vars

\* C15 witness: a subtopic was covered by a complete verdict, and a later
\* verdict that found it incomplete has queued its questions: the covered
\* entry is still there.
C15_Witness ==
    /\ pc = "idle"
    /\ ret = Returned("process_segment", "ok", "questions")
    /\ "Stacks" \in DOMAIN covered_subtopics
    /\ "Stacks" \in DOMAIN incomplete_subtopics
    /\ ~AllThree(incomplete_subtopics["Stacks"])
    /\ fed >= 2

\* The ways the analysis pipeline aborts: analyzer failure, unparsable reply,
\* verdict element without a subtopic name, failed command send.
Aborts == {"err", "notjson", "no_subtopic", "send"}

\* C16: whenever the analysis pipeline started by process_segment aborts with
\* an error, process_segment returns with the phase Listening, not Analyzing,
\* and the caller is given no error.
C16_AbortBackToListening ==
    (pc = "idle" /\ ret.op = "process_segment" /\ ret.res = "err")
    => /\ ret.why \in Aborts
       /\ state = "Listening"
       /\ CallerSees(ret) # "err"

\* C16 witness: the send of the first question failed after the questions
\* were installed, and the call has returned in Listening.
C16_Witness ==
    /\ pc = "idle"
    /\ ret = Returned("process_segment", "err", "send")
    /\ state = "Listening"
    /\ question_queue # <<>>
    /\ emitted = <<>>

\* A SessionComplete command has been emitted.
CompleteEmitted == \E i \in 1..Len(emitted) : emitted[i].cmd = "SessionComplete"

\* The grading of the last question of a batch returns.
BatchFinishes ==
    /\ pc = "aa_call" /\ pc' = "idle" /\ ret'.op = "analyze_answer"
    /\ ret'.res = "ok" /\ current_question_idx + 1 = Len(question_queue)

\* C17: SessionComplete is emitted only as the last action of the session:
\* finishing a batch of questions emits a SpeakText (not a SessionComplete),
\* and once a SessionComplete has been emitted no command is emitted any more.
C17_CompleteIsTerminal ==
    /\ [][BatchFinishes
            => /\ Len(emitted') = Len(emitted) + 1
               /\ emitted'[Len(emitted')].cmd = "SpeakText"]_vars
    /\ [][CompleteEmitted => emitted' = emitted]_vars

\* The second half of C17 alone.
C17_NothingAfterComplete == [][CompleteEmitted => emitted' = emitted]_vars

\* The place of the last SessionComplete in emitted (0: none).
LastComplete ==
    IF CompleteEmitted
    THEN CHOOSE i \in 1..Len(emitted) :
            /\ emitted[i].cmd = "SessionComplete"
            /\ \A j \in (i + 1)..Len(emitted) : emitted[j].cmd # "SessionComplete"
    ELSE 0

\* The commands emitted for the batch of questions in progress.
BatchEmitted == SubSeq(emitted, LastComplete + 1, Len(emitted))

\* The SpeakText commands of a list of questions.
Texts(qq) == [i \in 1..Len(qq) |-> SpeakText(qq[i].question)]

IsPrefix(a, b) == Len(a) <= Len(b) /\ a = SubSeq(b, 1, Len(a))

\* C18: questions are delivered in order and one at a time: the SpeakText
\* commands emitted for a batch are the questions of question_queue in order,
\* none twice; no more of them are emitted than answers were graded, plus
\* one, and while every send was accepted exactly that many; and what the
\* runtime has received, followed by what is still in the channel, is what was
\* emitted, in emission order.
C18_FifoOneAtATime ==
    /\ IsPrefix(BatchEmitted, Texts(question_queue))
    /\ Len(BatchEmitted) <= current_question_idx + 1
    /\ (rx_open /\ state = "AnalyzingAnswers")
        => Len(BatchEmitted) = current_question_idx + 1
    /\ received \o command_ch = emitted

\* C18 witness: the second question of a batch of three was emitted after the
\* first answer was graded, and the runtime has received both commands.
C18_Witness ==
    /\ state = "AnalyzingAnswers"
    /\ pc = "idle"
    /\ Len(question_queue) = 3
    /\ current_question_idx = 1
    /\ emitted = <<SpeakText(question_queue[1].question),
                   SpeakText(question_queue[2].question)>>
    /\ received = emitted

\* The question was spoken, analyze_answer is in its wait for the answer and
\* there is nothing to wake it with.
BlockedInWait ==
    /\ state = "AnalyzingAnswers"
    /\ pc = "aa_wait"
    /\ answer_buffer = <<>>
    /\ ~answer_notify

\* C19: the answer wait carries a timeout: when no answer segment arrives
\* after a question was spoken, the wait expires and the session is back in
\* Listening, instead of staying blocked for good.
C19_WaitExpires == BlockedInWait ~> (pc = "idle" /\ state = "Listening")

\* What does hold of the code for C19: no step ends a wait that has nothing
\* to wake it.
C19_BlockedForGood == [][BlockedInWait => BlockedInWait']_vars

\* Transcriptions that are broadcast and still to be received by a live loop.
Receivable ==
    IF alive /\ ~lagged
    THEN {events[i].n : i \in {j \in 1..Len(events) : events[j].kind = "transcription"}}
    ELSE {}

\* C20: every transcription event the transport produced results in exactly
\* one process_segment call, and the calls are made in arrival order, also
\* while an earlier call is waiting for the analyzer and other server events
\* keep arriving: the i-th call is for the i-th transcription, and every
\* transcription not yet called for is still going to be received.
C20_EveryTranscriptionCalled ==
    /\ \A i \in 1..Len(called) : called[i] = i
    /\ \A k \in 1..arrived :
            (\E i \in 1..Len(called) : called[i] = k) \/ k \in Receivable

\* What does hold of the service for C20: the calls that are made are made
\* once each and in arrival order.
C20_CallsInOrder ==
    \A i, j \in 1..Len(called) : i < j => called[i] < called[j]

\* The places of a catalog whose name scores at least / more than a threshold.
AtOrAbove(catalog, text, threshold) ==
    {i \in 1..Len(catalog) : FuzzyScore(text, catalog[i]) >= threshold}
Above(catalog, text, threshold) ==
    {i \in 1..Len(catalog) : FuzzyScore(text, catalog[i]) > threshold}

\* out is the catalog's entries at the places of `places`, in catalog order.
PicksInOrder(out, catalog, places) ==
    /\ Len(out) = Cardinality(places)
    /\ \E f \in [1..Len(out) -> 1..Len(catalog)] :
        /\ \A i, j \in 1..Len(out) : i < j => f[i] < f[j]
        /\ {f[i] : i \in 1..Len(out)} = places
        /\ \A i \in 1..Len(out) : out[i] = catalog[f[i]]

FindMentionsReturned == lib.op = "find_mentions" /\ lib.out # <<>>

\* C21: find_mentions(text, threshold) returns, in catalog order, exactly the
\* subtopics whose score against the text is at or above threshold (a score
\* equal to threshold counts); for an empty catalog it returns the empty
\* list; it never modifies the catalog.
C21_MentionsAtOrAbove ==
    FindMentionsReturned
    => /\ PicksInOrder(lib.out.mentions, lib.in.catalog,
                       AtOrAbove(lib.in.catalog, lib.in.text, lib.in.threshold))
       /\ (lib.in.catalog = <<>> => lib.out.mentions = <<>>)
       /\ lib.out.catalog = lib.in.catalog

\* C21 as amended: the same with "above threshold": a score equal to the
\* threshold is not a mention.
C21_MentionsAbove ==
    FindMentionsReturned
    => /\ PicksInOrder(lib.out.mentions, lib.in.catalog,
                       Above(lib.in.catalog, lib.in.text, lib.in.threshold))
       /\ (lib.in.catalog = <<>> => lib.out.mentions = <<>>)
       /\ lib.out.catalog = lib.in.catalog

\* C21 witness: of a catalog of two, in the order Queues, Stacks, one name
\* scores exactly the threshold and the other above it: the second alone is
\* returned.
C21_Witness ==
    /\ FindMentionsReturned
    /\ lib.in.catalog = <<"Queues", "Stacks">>
    /\ lib.in.threshold = THRESHOLD
    /\ FuzzyScore(lib.in.text, "Stacks") = THRESHOLD
    /\ FuzzyScore(lib.in.text, "Queues") > THRESHOLD
    /\ lib.out.mentions = <<"Queues">>

\* C22: SubTopicList::new rejects a list in which two subtopics have the same
\* name up to case, so no catalog with duplicate names exists.
C22_DuplicatesRejected ==
    (lib.op = "new" /\ lib.out # <<>> /\ lib.out.ok)
    => \A i, j \in 1..Len(lib.out.subtopics) :
            i # j => ToLower(lib.out.subtopics[i]) # ToLower(lib.out.subtopics[j])

\* C23: speaking a text asks the client for one conversation item holding the
\* text as a System message and then for one response, in that order; when the
\* item could not be created no response is asked for and the caller gets the
\* error.
MadeBySpeak == SubSeq(speak.requests, speak.base + 1, Len(speak.requests))
C23_ItemThenResponse ==
    /\ speak.pos = "create_conversation_item" => MadeBySpeak = <<>>
    /\ speak.pos = "create_response" =>
            MadeBySpeak = <<ConversationItemCreate(speak.text)>>
    /\ (speak.pos = "returned" /\ speak.failed = "item") =>
            /\ MadeBySpeak = <<ConversationItemCreate(speak.text)>>
            /\ speak.res = "Err"
    /\ (speak.pos = "returned" /\ speak.failed # "item") =>
            /\ MadeBySpeak = <<ConversationItemCreate(speak.text), ResponseCreate>>
            /\ speak.res = (IF speak.failed = "response" THEN "Err" ELSE "Ok")
C23_Witness ==
    /\ speak.pos = "returned"
    /\ speak.failed = "item"
    /\ speak.base = 2
    /\ speak.requests[2] = ResponseCreate

\* C24: the translation task forwards, in the order it received the provider's
\* messages, a Transcription(text) for an input transcription, a Speaking for
\* a model turn with audio and a SpeakingDone for a completed turn, in that
\* order within one message, and nothing for a message that carries none of
\* them; a send refused because the Receiver is gone is the task's last step.
Carried(m) ==
    IF m.api = "gemini"
    THEN [transcription |-> IF m.server_content THEN m.input_transcription ELSE "null",
          audio |-> m.server_content /\ m.model_turn = "audio",
          done |-> m.server_content /\ m.turn_complete = "true",
          other |-> <<>>]
    ELSE [transcription |-> IF m.type = "conversation.item.input_audio_transcription.completed"
                            THEN m.text ELSE "null",
          audio |-> m.type = "response.audio.delta",
          done |-> m.type = "response.done",
          other |-> IF m.type = "error" THEN <<GError(m.text)>>
                    ELSE IF m.type = "close" THEN <<Closed>> ELSE <<>>]
Expected(m) ==
    LET c == Carried(m) IN
    (IF c.transcription # "null" THEN <<GTranscription(c.transcription)>> ELSE <<>>)
    \o (IF c.audio THEN <<Speaking>> ELSE <<>>)
    \o (IF c.done THEN <<SpeakingDone>> ELSE <<>>)
    \o c.other
RECURSIVE ExpectedAll(_)
ExpectedAll(ms) == IF ms = <<>> THEN <<>> ELSE Expected(Head(ms)) \o ExpectedAll(Tail(ms))
C24_TranslatedInOrder ==
    /\ xlat.task \in {"recv", "send"} =>
            /\ xlat.forwarded \o xlat.outs = ExpectedAll(xlat.taken)
            /\ xlat.undelivered = <<>>
    /\ xlat.task = "stopped" => xlat.outs = <<>>
    /\ (xlat.task = "stopped" /\ xlat.why = "receiver dropped") =>
            /\ Len(xlat.undelivered) = 1
            /\ IsPrefix(xlat.forwarded \o xlat.undelivered, ExpectedAll(xlat.taken))
    /\ (xlat.task = "stopped" /\ xlat.why = "lagged") =>
            /\ xlat.undelivered = <<>>
            /\ xlat.forwarded = ExpectedAll(xlat.taken)
    /\ (xlat.task = "stopped" /\ xlat.why = "closed") =>
            xlat.forwarded \o xlat.undelivered =
                ExpectedAll(xlat.taken)
                \o (IF xlat.adapter = "GeminiAdapter" THEN <<Closed>> ELSE <<>>)
    /\ xlat.undelivered # <<>> => (xlat.task = "stopped" /\ ~xlat.rx_open)
C24_Witness ==
    /\ xlat.task = "stopped"
    /\ xlat.why = "receiver dropped"
    /\ Len(xlat.forwarded) >= 3
    /\ \E i \in 1..Len(xlat.taken) : Len(Expected(xlat.taken[i])) = 3
    /\ \E i \in 1..Len(xlat.taken) : Expected(xlat.taken[i]) = <<>>

\* C25: a segment with a detected subtopic is sent to analyze_topic after the
\* pending segments, oldest first, all joined by single spaces, and leaves
\* pending_segments empty; a segment without one goes to the end of
\* pending_segments.
ArrivalOrdered(text) ==
    /\ text[1] # SP
    /\ text[Len(text)] # SP
    /\ \A i \in 1..(Len(text) - 1) :
            /\ ~(text[i] = SP /\ text[i + 1] = SP)
            /\ \A j \in (i + 1)..Len(text) :
                    (text[i] # SP /\ text[j] # SP) => text[i].id <= text[j].id
AllComplete(arr) ==
    \A i \in 1..Len(arr) :
        /\ arr[i].subtopic # "null"
        /\ arr[i].has_definition = "true"
        /\ arr[i].has_mechanism = "true"
        /\ arr[i].has_example = "true"
C26_AllCompleteBackToListening ==
    [][\A reply \in Replies :
            (AnalyzeTopicReturns(reply) /\ reply.kind = "array" /\ AllComplete(reply.arr)
                /\ in_between_buffer = <<>>)
            => /\ pc' = "idle"
               /\ ret' = Returned("process_segment", "ok", "listening")
               /\ state' = "Listening"
               /\ question_queue' = <<>>
               /\ emitted' = emitted
               /\ command_ch' = command_ch]_vars
\* What does hold: question_queue is left as the call found it.  It is empty
\* unless an earlier call installed questions and then failed to send the
\* first one.
C26_QueueLeftAlone ==
    [][\A reply \in Replies :
            (AnalyzeTopicReturns(reply) /\ reply.kind = "array" /\ AllComplete(reply.arr)
                /\ in_between_buffer = <<>>)
            => /\ pc' = "idle"
               /\ ret' = Returned("process_segment", "ok", "listening")
               /\ state' = "Listening"
               /\ question_queue' = question_queue
               /\ (rx_open => question_queue = <<>>)
               /\ emitted' = emitted
               /\ command_ch' = command_ch]_vars
C26_Witness ==
    /\ pc = "idle"
    /\ ret = Returned("process_segment", "ok", "listening")
    /\ state = "Listening"
    /\ question_queue = <<>>
    /\ emitted = <<>>
    /\ DOMAIN covered_subtopics = {"Stacks"}
    /\ incomplete_subtopics = EmptyMap
    /\ fed = 1

\* C27: when the last question of a batch has been graded, the segments in
\* in_between_buffer are moved, in order, to temp_context_buffer and
\* in_between_buffer is left empty.
C27_BacklogBecomesContext ==
    [][\A grade \in Grades :
            (AnalyzeAnswerReturns(grade) /\ ret' = Returned("analyze_answer", "ok", "complete"))
            => /\ temp_context_buffer' = temp_context_buffer \o in_between_buffer
               /\ in_between_buffer' = <<>>]_vars

\* C28: a transcription that arrives while analyze_topic is being awaited
\* (phase Analyzing) is accepted at once: the loop that ingests segments can
\* take it and have process_segment push it to in_between_buffer before the
\* analyzer has replied.
SegmentWaiting ==
    /\ alive
    /\ ~lagged
    /\ events # <<>>
    /\ Head(events).kind = "transcription"
C28_AcceptedDuringAnalysis ==
    (pc = "at_wait" /\ state = "Analyzing" /\ SegmentWaiting) => ENABLED ServerHandle

\* What the service does instead: in_between_buffer stays empty, the segment
\* waits in the broadcast channel until the call in progress has returned.
C28_BacklogNeverUsed == in_between_buffer = <<>>

\* C29: in every state at most one process_analyzing or analyze_answer
\* invocation is in progress on the session (a process_analyzing that has
\* called itself for a backlog segment is one call chain).
C29_OneInvocation ==
    /\ active \in {0, 1}
    /\ active = 1 <=> pc # "idle"
C29_Witness ==
    /\ active = 1
    /\ pc = "at_wait"
    /\ current_question_idx < Len(question_queue)

\* C30: a verdict or a question naming a subtopic the catalog does not have
\* adds no ledger entry: every key of covered_subtopics and of
\* incomplete_subtopics is the name of a catalog subtopic.
CatalogNames == {Catalog[i] : i \in 1..Len(Catalog)}
C30_LedgerKeysInCatalog ==
    (DOMAIN covered_subtopics) \cup (DOMAIN incomplete_subtopics) \subseteq CatalogNames

\* What does hold: the unknown name is not fatal, the call returns Ok.
C30_UnknownNameNotFatal ==
    [][\A reply \in Replies :
            (AnalyzeTopicReturns(reply) /\ reply.kind = "array"
                /\ \A i \in 1..Len(reply.arr) : reply.arr[i].subtopic # "null")
            => (ret'.res = "ok" \/ ret'.why = "send" \/ pc' = "analyzing")]_vars

\* C31: a verdict element whose flag is absent or not a boolean is recorded
\* with that flag false, so its subtopic is in incomplete_subtopics, and
\* whatever the analyzer replies process_segment returns with the phase
\* Listening or AnalyzingAnswers.
FlagNames == {Fields[i] : i \in 1..Len(Fields)}
Malformed(el) == \E f \in FlagNames : el[f] \notin JsonBool
LastWord(arr, i) ==
    /\ \A j \in 1..i : arr[j].subtopic # "null"
    /\ \A j \in (i + 1)..Len(arr) : arr[j].subtopic # arr[i].subtopic
C31_MalformedFlagIsFalse ==
    [][\A reply \in Replies :
            AnalyzeTopicReturns(reply)
            => /\ pc' = "idle"
               /\ ret'.op = "process_segment"
               /\ state' \in {"Listening", "AnalyzingAnswers"}
               /\ \A i \in 1..Len(reply.arr) :
                    (Malformed(reply.arr[i]) /\ LastWord(reply.arr, i))
                    => /\ reply.arr[i].subtopic \in DOMAIN incomplete_subtopics'
                       /\ \A f \in FlagNames :
                            incomplete_subtopics'[reply.arr[i].subtopic][f]
                                = (reply.arr[i][f] = "true")]_vars
C31_Witness ==
    /\ pc = "idle"
    /\ ret = Returned("process_segment", "ok", "questions")
    /\ state = "AnalyzingAnswers"
    /\ question_queue = <<[subtopic |-> "Stacks", field |-> "has_mechanism",
                           question |-> "how?"]>>
    /\ "Stacks" \in DOMAIN incomplete_subtopics
    /\ incomplete_subtopics["Stacks"] = SubTopic(TRUE, FALSE, TRUE)

\* C32: a process_segment call in Listening, with nothing in the backlog,
\* calls analyze_topic exactly once when its text mentions a subtopic and not
\* at all when it mentions none.
C32_OneCallPerChunk ==
    (pc = "idle" /\ ret.op = "process_segment" /\ ret.why \notin {"buffered", "answer"}
        /\ Len(passed) = 1 /\ snap.backlog = <<>>)
    => topic_calls = (IF FindMentions(passed[1], THRESHOLD) # <<>> THEN 1 ELSE 0)
C32_Witness ==
    /\ pc = "idle"
    /\ ret = Returned("process_segment", "ok", "listening")
    /\ fed = 3
    /\ Len(passed) = 1
    /\ snap.pending # <<>>
    /\ topic_calls = 1

\* C33: a segment received in Listening is given to the pipeline as the
\* contents of temp_context_buffer joined by spaces, a space and the segment,
\* or as the segment alone when the buffer is empty; temp_context_buffer is
\* empty afterwards and the phase is Analyzing for as long as the pipeline runs.
C33_ContextPrepended ==
    [][/\ \A w \in Words :
            (ProcessSegment(w) /\ state = "Listening")
            => /\ pc' = "analyzing"
               /\ cur' = (IF temp_context_buffer = <<>> THEN Utterance(fed + 1, w)
                          ELSE Join(Append(temp_context_buffer, Utterance(fed + 1, w))))
               /\ temp_context_buffer' = <<>>
               /\ state' = "Analyzing"
       /\ (ProcessAnalyzing /\ Len(passed) = 0) => passed' = <<cur>>
       /\ pc' \in {"analyzing", "at_wait"} => state' = "Analyzing"]_vars
C33_Witness ==
    /\ pc = "at_wait"
    /\ state = "Analyzing"
    /\ temp_context_buffer = <<>>
    /\ fed = 1
    /\ Len(passed) = 1
    /\ Len(passed[1]) = 5
    /\ passed[1][5].id = 1

\* C34: the drain of the backlog terminates: while a process_segment call
\* runs the backlog never grows, every recursive process_analyzing step takes
\* exactly one segment off it, so there are at most as many recursive steps
\* as segments at entry, and a return without error in phase Listening leaves
\* in_between_buffer empty.
InPipeline == pc \in {"analyzing", "at_wait"}
C34_DrainTerminates ==
    [][/\ InPipeline => Len(in_between_buffer') <= Len(in_between_buffer)
       /\ (InPipeline /\ pc' = "analyzing")
            => /\ in_between_buffer # <<>>
               /\ Len(in_between_buffer') = Len(in_between_buffer) - 1
       /\ (InPipeline /\ ret' = Returned("process_segment", "ok", "listening"))
            => (state' = "Listening" /\ in_between_buffer' = <<>>)]_vars
C34_Witness ==
    /\ pc = "idle"
    /\ ret = Returned("process_segment", "ok", "listening")
    /\ state = "Listening"
    /\ Len(passed) = 3
    /\ in_between_buffer = <<>>

\* C35: whenever the phase is AnalyzingAnswers, question_queue is not empty
\* and current_question_idx is the index of one of its questions, also after
\* a command send has failed.
HasCurrentQuestion ==
    question_queue # <<>> /\ current_question_idx < Len(question_queue)
C35_CurrentQuestionExists ==
    state = "AnalyzingAnswers" => HasCurrentQuestion

\* What does hold: the phase has a current question as long as no send of
\* analyze_answer has failed.
C35_UnlessSendFailed ==
    (state = "AnalyzingAnswers" /\ ~HasCurrentQuestion)
    => (~rx_open /\ current_question_idx = Len(question_queue))

\* C36: whenever the phase is Listening, question_queue is empty,
\* current_question_idx is 0 and answer_buffer is empty, also after a failed
\* analysis or a failed command send.
C36_ListeningIsClean ==
    state = "Listening"
    => (question_queue = <<>> /\ current_question_idx = 0 /\ answer_buffer = <<>>)

\* What does hold: in Listening the cursor is 0 and answer_buffer is empty,
\* and question_queue is empty as long as no send has failed.
C36_CleanButForQueue ==
    state = "Listening"
    => /\ current_question_idx = 0
       /\ answer_buffer = <<>>
       /\ rx_open => question_queue = <<>>

\* C37: when process_analyzing returns an error, covered_subtopics and
\* incomplete_subtopics are as they were before the call.  (Stated for errors
\* of the analysis itself; an error of the command send, which comes after
\* the verdicts are applied, breaks it as well.)
C37_LedgerUntouchedOnError ==
    [][\A reply \in Replies :
            (AnalyzeTopicReturns(reply) /\ ret'.res = "err" /\ ret'.why # "send")
            => /\ covered_subtopics' = covered_subtopics
               /\ incomplete_subtopics' = incomplete_subtopics]_vars

\* What does hold: the ledger is untouched when the reply itself is refused
\* (transport error, not JSON) or its first element has no name.
C37_UntouchedWhenRefusedAtOnce ==
    [][\A reply \in Replies :
            (AnalyzeTopicReturns(reply)
                /\ (reply.kind \in {"err", "notjson"}
                    \/ (reply.kind = "array" /\ reply.arr # <<>>
                        /\ reply.arr[1].subtopic = "null")))
            => /\ ret'.res = "err"
               /\ covered_subtopics' = covered_subtopics
               /\ incomplete_subtopics' = incomplete_subtopics]_vars

RecordedTrue(n, f) ==
    \/ n \in DOMAIN covered_subtopics /\ covered_subtopics[n][f]
    \/ n \in DOMAIN incomplete_subtopics /\ incomplete_subtopics[n][f]
C39_CoverageNeverRegresses ==
    [][\A n \in VerdictNames \cup {"Ghost"}, f \in FlagNames :
            RecordedTrue(n, f)
            => /\ n \in DOMAIN covered_subtopics' => covered_subtopics'[n][f]
               /\ n \in DOMAIN incomplete_subtopics' => incomplete_subtopics'[n][f]]_vars

\* What does hold: a graded answer never takes a flag back in either map;
\* only a verdict does.
C39_AnswersNeverRegress ==
    [][\A grade \in Grades : AnalyzeAnswerReturns(grade) =>
        \A n \in VerdictNames \cup {"Ghost"}, f \in FlagNames :
            /\ (n \in DOMAIN covered_subtopics /\ covered_subtopics[n][f])
                    => (n \in DOMAIN covered_subtopics' /\ covered_subtopics'[n][f])
            /\ (n \in DOMAIN incomplete_subtopics /\ incomplete_subtopics[n][f])
                    => \/ n \in DOMAIN incomplete_subtopics' /\ incomplete_subtopics'[n][f]
                       \/ n \in DOMAIN covered_subtopics' /\ covered_subtopics'[n][f]]_vars

\* C40: Analyzing is a transient phase: whenever no call is in progress on
\* the session, so at every return of process_segment and at every entry of
\* a serialized call, the phase is Listening or AnalyzingAnswers.
C40_AnalyzingIsTransient ==
    /\ SessionFree => state \in {"Listening", "AnalyzingAnswers"}
    /\ state = "Analyzing" => InPipeline
    /\ in_between_buffer = <<>>
C40_Witness ==
    /\ pc = "idle"
    /\ ret = Returned("process_segment", "ok", "listening")
    /\ state = "Listening"
    /\ pending_segments # <<>>
    /\ fed = 3

====
